---- MODULE Spec2Model ----
(***************************************************************************)
(* Model of src/app.py: the cached function load_and_model_data (load the  *)
(* quarterly CSV, rename its columns, run the Isolation Forest, STL and    *)
(* Prophet detectors, count the flags) and the part of the dashboard       *)
(* script that derives the consensus set and the anomaly table from it.    *)
(*                                                                         *)
(* A table (DataFrame) is a function from column names to series; a series *)
(* is a function from Periods to integers.  The date index is the period   *)
(* number 1..NumPeriods: unique and ascending, as the CSV keeps it.        *)
(* What the fitted library models return (Isolation Forest labels, STL     *)
(* Prophet interval bounds) is drawn from small sets when the   *)
(* step runs; that a library call raises is a step of its own.             *)
(***************************************************************************)
EXTENDS Integers, Sequences, FiniteSets, TLC

VARIABLES
    csv,          \* the table pd.read_csv parses from the CSV file as it is now
    cache,        \* st.cache_data entry of load_and_model_data (NoTable: none)
    pc,           \* position of the script
    df,           \* local df of load_and_model_data
    X_scaled,     \* local X_scaled
    col_i,        \* number of features the STL loop has processed
    residuals,    \* local residuals of the STL iteration just run
    df_forecast,  \* local df_forecast: yhat_lower / yhat_upper per period
    err,          \* the exception that ended the script, if any
    df_final,     \* module-level df_final
    df_consensus, \* module-level df_consensus (its index, in row order)
    df_anomalies, \* module-level df_anomalies (its index, in row order)
    stl_hits,     \* history: periods at which some processed field exceeded
    stl_zero,     \* history: every residual of every processed field was 0
    ran           \* progress of each detector when run in free order

vars == <<csv, cache, pc, df, X_scaled, col_i, residuals, df_forecast, err,
          df_final, df_consensus, df_anomalies, stl_hits, stl_zero, ran>>

----------------------------------------------------------------------------
(* Bounds and input domains *)

NumPeriods == 2

Periods == 1..NumPeriods

\* values a panel cell may hold
CellVals == {0, 1}

\* values an STL residual may take
ResVals == {-2, -1, 0}

\* values a Prophet interval bound may take
BoundVals == {0, 1}

\* labels IsolationForest.fit_predict returns
IsoLabels == {-1, 1}

RawCols == {"GDP_YoY_Growth", "Total_Corporate_Credit",
            "Total_Household_Credit", "Total_Debt"}

features == <<"gdp", "corporate_credit", "household_credit", "total_debt">>

FeatureSet == {features[i] : i \in 1..Len(features)}

FlagCols == {"anomaly_isoforest", "anomaly_stl", "anomaly_prophet"}

NoTable == [c \in {} |-> [p \in Periods |-> 0]]

NoSeries == [p \in {} |-> 0]

NoErr == [kind |-> "none", step |-> "none"]

\* the series a column of the CSV may hold
FlatSeries == [p \in Periods |-> 0]

StepSeries == [p \in Periods |-> IF p = 1 THEN 0 ELSE 1]

RampSeries == [p \in Periods |-> p]

\* the complete CSV files considered: GDP growth flat or stepping, corporate
\* credit flat or rising, household credit and debt rising
FullCsv ==
    {f \in [RawCols -> {FlatSeries, StepSeries, RampSeries}] :
        /\ f["GDP_YoY_Growth"] \in {FlatSeries, StepSeries}
        /\ f["Total_Corporate_Credit"] \in {FlatSeries, RampSeries}
        /\ f["Total_Household_Credit"] = RampSeries
        /\ f["Total_Debt"] = RampSeries}

Restrict(f, S) == [c \in S |-> f[c]]

\* CSV files that lack exactly one of the four columns
PartialCsv == {Restrict(f, RawCols \ {c}) : f \in FullCsv, c \in RawCols}

AllCsv == FullCsv \cup PartialCsv

\* the files the CSV switches between while the app keeps running
CacheCsv ==
    LET full == {f \in FullCsv : f["Total_Corporate_Credit"] = RampSeries}
    IN  full \cup {Restrict(f, RawCols \ {"Total_Debt"}) :
                      f \in {g \in full : g["GDP_YoY_Growth"] = StepSeries}}

\* the file over which the detectors are run in free order
AnyOrderCsv ==
    {f \in FullCsv : /\ f["GDP_YoY_Growth"] = StepSeries
                     /\ f["Total_Corporate_Credit"] = RampSeries}

----------------------------------------------------------------------------
(* Table helpers *)

WithColumn(t, name, s) ==
    [c \in DOMAIN t \cup {name} |-> IF c = name THEN s ELSE t[c]]

DropColumns(t, names) == [c \in DOMAIN t \ names |-> t[c]]

\* df.rename(columns={...}): names absent from the mapping or from the table
\* are passed over silently
RenameOne(c) ==
    CASE c = "GDP_YoY_Growth"         -> "gdp"
      [] c = "Total_Corporate_Credit" -> "corporate_credit"
      [] c = "Total_Household_Credit" -> "household_credit"
      [] c = "Total_Debt"             -> "total_debt"
      [] OTHER                        -> c

RenameColumns(t) ==
    [k \in {RenameOne(c) : c \in DOMAIN t} |->
        t[CHOOSE c \in DOMAIN t : RenameOne(c) = k]]

\* df[features] raises KeyError for the features that are no column of df
MissingFeatures(t) == FeatureSet \ DOMAIN t

RECURSIVE SumOver(_, _)
SumOver(s, S) ==
    IF S = {} THEN 0
    ELSE LET p == CHOOSE q \in S : TRUE IN s[p] + SumOver(s, S \ {p})

SumOf(s) == SumOver(s, DOMAIN s)

SumSq(s) == SumOver([p \in DOMAIN s |-> s[p] * s[p]], DOMAIN s)

\* n*n times the population variance of s, n*(n-1) times its sample variance
VarNum(s) == Cardinality(DOMAIN s) * SumSq(s) - SumOf(s) * SumOf(s)

----------------------------------------------------------------------------
(* a) Isolation Forest *)

\* variant: a scaler that divides by the standard deviation as it is
ScaleSq_unguarded(s) == VarNum(s)

\* StandardScaler: the scale of a feature is its standard deviation, and a
\* zero scale is replaced by 1.  The value kept here is n*n times the square
\* of the scale.
ScaleSq(s) ==
    IF VarNum(s) = 0 THEN Cardinality(DOMAIN s) * Cardinality(DOMAIN s)
    ELSE VarNum(s)

\* scaler.fit_transform(df[features]): the cell num / sqrt(den2) is
\* (x - mean) / scale; den2 = 0 stands for the NaN of a division by zero
FitTransform(t) ==
    [c \in FeatureSet |->
        [p \in Periods |->
            [num  |-> Cardinality(Periods) * t[c][p] - SumOf(t[c]),
             den2 |-> ScaleSq(t[c])]]]

HasNaN(X) == \E c \in DOMAIN X : \E p \in Periods : X[c][p].den2 = 0

\* lambda x: 1 if x == -1 else 0
IsoMap(x) == IF x = -1 THEN 1 ELSE 0

\* lines 64-68: the raw labels and the mapped flag column
IsoForestStep(t, raw) ==
    WithColumn(WithColumn(t, "anomaly_isoforest_raw", raw),
               "anomaly_isoforest", [p \in Periods |-> IsoMap(raw[p])])

----------------------------------------------------------------------------
(* b) STL decomposition *)

Abs(x) == IF x < 0 THEN -x ELSE x

\* residuals.abs() > 2.5 * residuals.std(), std being the sample standard
\* deviation: |r| > 2.5*sd  <=>  4*r*r*n*(n-1) > 25*(n*sum(r^2) - sum(r)^2).
\* With a single row std is NaN and the comparison is False, as here.
ExceedsThreshold(res, p) ==
    LET n == Cardinality(DOMAIN res)
    IN  4 * Abs(res[p]) * Abs(res[p]) * n * (n - 1) > 25 * VarNum(res)

\* residuals[residuals.abs() > threshold].index
AnomalyIdx(res) == {p \in DOMAIN res : ExceedsThreshold(res, p)}

\* variant: the column starts as a copy of another detector's flags
StlInitStep_seeded(t) ==
    WithColumn(t, "anomaly_stl",
               IF "anomaly_isoforest" \in DOMAIN t THEN t["anomaly_isoforest"]
               ELSE [p \in Periods |-> 0])

\* df["anomaly_stl"] = 0
StlInitStep(t) == WithColumn(t, "anomaly_stl", [p \in Periods |-> 0])

\* variant: each field overwrites the column with its own mask
StlFieldStep_overwrite(t, res) ==
    WithColumn(t, "anomaly_stl",
               [p \in Periods |-> IF p \in AnomalyIdx(res) THEN 1 ELSE 0])

\* df.loc[anomaly_idx, "anomaly_stl"] = 1
StlFieldStep(t, res) ==
    WithColumn(t, "anomaly_stl",
               [p \in Periods |->
                   IF p \in AnomalyIdx(res) THEN 1 ELSE t["anomaly_stl"][p]])

----------------------------------------------------------------------------
(* c) Prophet *)

\* .astype(int) of a boolean
AsInt(b) == IF b THEN 1 ELSE 0

\* variant: the bounds themselves count as outside
OutsideInterval_inclusive(y, lower, upper) == y <= lower \/ y >= upper

\* (df["gdp"] < yhat_lower) | (df["gdp"] > yhat_upper), aligned on the date
OutsideInterval(y, lower, upper) == y < lower \/ y > upper

ProphetStep(t, fc) ==
    WithColumn(t, "anomaly_prophet",
               [p \in Periods |->
                   AsInt(OutsideInterval(t["gdp"][p], fc["yhat_lower"][p],
                                         fc["yhat_upper"][p]))])

\* the forecasts predict() may return: a lower and an upper bound per period
Forecasts ==
    {fc \in [{"yhat_lower", "yhat_upper"} -> [Periods -> BoundVals]] :
        \A p \in Periods : fc["yhat_lower"][p] <= fc["yhat_upper"][p]}

----------------------------------------------------------------------------
(* 3. Count *)

\* variant: the Prophet flag is left out of the sum
CountStep_two(t) ==
    WithColumn(t, "anomaly_count",
               [p \in Periods |->
                   t["anomaly_isoforest"][p] + t["anomaly_stl"][p]])

\* df[[...three flag columns...]].sum(axis=1)
CountStep(t) ==
    WithColumn(t, "anomaly_count",
               [p \in Periods |->
                   t["anomaly_isoforest"][p] + t["anomaly_stl"][p]
                       + t["anomaly_prophet"][p]])

\* df.drop(columns=["anomaly_isoforest_raw"])
ReturnValue(t) == DropColumns(t, {"anomaly_isoforest_raw"})

----------------------------------------------------------------------------
(* The views the script derives from df_final *)

Range(s) == {s[i] : i \in DOMAIN s}

PermSeqs(S) ==
    {s \in [1..Cardinality(S) -> S] :
        \A i, j \in 1..Cardinality(S) : i # j => s[i] # s[j]}

\* the rows of S in index (date) order
InIndexOrder(S) ==
    CHOOSE s \in PermSeqs(S) : \A i, j \in DOMAIN s : i < j => s[i] < s[j]

\* variant: one flag is enough for the consensus
ConsensusRows_atLeastOne(t) == {p \in Periods : t["anomaly_count"][p] >= 1}

\* df_final[df_final["anomaly_count"] > 1]
ConsensusRows(t) == {p \in Periods : t["anomaly_count"][p] > 1}

\* df_final[df_final["anomaly_count"] > 0]
FlaggedRows(t) == {p \in Periods : t["anomaly_count"][p] > 0}

\* .sort_values("anomaly_count", ascending=False): any order of the rows in
\* which the counts do not increase (the default sort is not stable)
SortValuesDesc(t, S) ==
    {s \in PermSeqs(S) :
        \A i, j \in DOMAIN s :
            i < j => t["anomaly_count"][s[i]] >= t["anomaly_count"][s[j]]}

\* .sort_index(): the rows by ascending date, whatever order they came in
SortIndex(s) == InIndexOrder(Range(s))

----------------------------------------------------------------------------
NoProgress == [iso |-> "none", stl |-> "none", prophet |-> "none"]

Init ==
    /\ csv \in AllCsv
    /\ cache = NoTable
    /\ pc = "idle"
    /\ df = NoTable
    /\ X_scaled = NoTable
    /\ col_i = 0
    /\ residuals = NoSeries
    /\ df_forecast = NoTable
    /\ err = NoErr
    /\ df_final = NoTable
    /\ df_consensus = <<>>
    /\ df_anomalies = <<>>
    /\ stl_hits = {}
    /\ stl_zero = TRUE
    /\ ran = NoProgress

Views == <<df_consensus, df_anomalies>>

StlLocals == <<residuals, stl_hits, stl_zero>>

\* the script is rerun; load_and_model_data() finds its cached value
CacheHit ==
    /\ pc \in {"idle", "failed"}
    /\ cache # NoTable
    /\ df_final' = cache
    /\ pc' = "main"
    /\ err' = NoErr
    /\ df_consensus' = <<>>
    /\ df_anomalies' = <<>>
    /\ UNCHANGED <<csv, cache, df, X_scaled, col_i, df_forecast,
                   StlLocals, ran>>

\* the script is rerun; nothing is cached and the function body runs
CacheMiss ==
    /\ pc \in {"idle", "failed"}
    /\ cache = NoTable
    /\ pc' = "load"
    /\ err' = NoErr
    /\ df' = NoTable
    /\ X_scaled' = NoTable
    /\ col_i' = 0
    /\ residuals' = NoSeries
    /\ df_forecast' = NoTable
    /\ df_final' = NoTable
    /\ df_consensus' = <<>>
    /\ df_anomalies' = <<>>
    /\ stl_hits' = {}
    /\ stl_zero' = TRUE
    /\ UNCHANGED <<csv, cache, ran>>

\* 1. Load processed data
Load ==
    /\ pc = "load"
    /\ df' = RenameColumns(csv)
    /\ pc' = "scale"
    /\ UNCHANGED <<csv, cache, X_scaled, col_i, df_forecast, err,
                   df_final, Views, StlLocals, ran>>

\* variant: the selection keeps the features that exist and goes on
FeaturesKeyError_lenient ==
    /\ pc = "scale"
    /\ MissingFeatures(df) # {}
    /\ X_scaled' = NoTable
    /\ pc' = "iso"
    /\ UNCHANGED <<csv, cache, df, col_i, df_forecast, err,
                   df_final, Views, StlLocals, ran>>

\* df[features] with a feature that is no column
FeaturesKeyError ==
    /\ pc = "scale"
    /\ MissingFeatures(df) # {}
    /\ pc' = "failed"
    /\ err' = [kind |-> "KeyError", step |-> "isoforest"]
    /\ UNCHANGED <<csv, cache, df, X_scaled, col_i, df_forecast,
                   df_final, Views, StlLocals, ran>>

\* X_scaled = scaler.fit_transform(df[features])
Standardize ==
    /\ pc = "scale"
    /\ MissingFeatures(df) = {}
    /\ X_scaled' = FitTransform(df)
    /\ pc' = "iso"
    /\ UNCHANGED <<csv, cache, df, col_i, df_forecast, err,
                   df_final, Views, StlLocals, ran>>

\* iso_model.fit_predict(X_scaled) and the mapping of its labels; the
\* estimator rejects an input that holds NaN with a ValueError
IsoForest ==
    /\ pc = "iso"
    /\ IF HasNaN(X_scaled)
       THEN /\ pc' = "failed"
            /\ err' = [kind |-> "ValueError", step |-> "isoforest"]
            /\ UNCHANGED df
       ELSE /\ \E raw \in [Periods -> IsoLabels] : df' = IsoForestStep(df, raw)
            /\ pc' = "stl_init"
            /\ UNCHANGED err
    /\ UNCHANGED <<csv, cache, X_scaled, col_i, df_forecast,
                   df_final, Views, StlLocals, ran>>

\* a library call of the named detector raises; nothing in the function
\* catches it
Raise(at, step) ==
    /\ pc = at
    /\ pc' = "failed"
    /\ err' = [kind |-> "DetectorError", step |-> step]
    /\ UNCHANGED <<csv, cache, df, X_scaled, col_i, df_forecast,
                   df_final, Views, StlLocals, ran>>

\* variant: the Prophet failure is caught and the flag left at 0
ProphetRaises_isolated ==
    /\ pc = "prophet"
    /\ df' = WithColumn(df, "anomaly_prophet", [p \in Periods |-> 0])
    /\ err' = [kind |-> "DetectorError", step |-> "prophet"]
    /\ pc' = "count"
    /\ UNCHANGED <<csv, cache, X_scaled, col_i, df_forecast,
                   df_final, Views, StlLocals, ran>>

IsoForestRaises == Raise("iso", "isoforest")

StlRaises == Raise("stl_loop", "stl")

ProphetRaises == Raise("prophet", "prophet")

StlInit ==
    /\ pc = "stl_init"
    /\ df' = StlInitStep(df)
    /\ col_i' = 0
    /\ pc' = "stl_loop"
    /\ UNCHANGED <<csv, cache, X_scaled, df_forecast, err,
                   df_final, Views, StlLocals, ran>>

\* one iteration of "for col in features"
StlField ==
    /\ pc = "stl_loop"
    /\ col_i < Len(features)
    /\ \E res \in [Periods -> ResVals] :
        /\ residuals' = res
        /\ df' = StlFieldStep(df, res)
        /\ stl_hits' = stl_hits \cup {p \in Periods : ExceedsThreshold(res, p)}
        /\ stl_zero' = (stl_zero /\ \A p \in Periods : res[p] = 0)
    /\ col_i' = col_i + 1
    /\ UNCHANGED <<csv, cache, pc, X_scaled, df_forecast, err, df_final,
                   Views, ran>>

\* the loop is exhausted
StlDone ==
    /\ pc = "stl_loop"
    /\ col_i = Len(features)
    /\ residuals' = NoSeries
    /\ pc' = "prophet"
    /\ UNCHANGED <<csv, cache, df, X_scaled, col_i, df_forecast, err,
                   df_final, Views, stl_hits, stl_zero, ran>>

\* fit, predict, and the comparison of gdp with the interval
Prophet ==
    /\ pc = "prophet"
    /\ \E fc \in Forecasts :
        /\ df_forecast' = fc
        /\ df' = ProphetStep(df, fc)
    /\ pc' = "count"
    /\ UNCHANGED <<csv, cache, X_scaled, col_i, err, df_final,
                   Views, StlLocals, ran>>

Count ==
    /\ pc = "count"
    /\ df' = CountStep(df)
    /\ pc' = "return"
    /\ UNCHANGED <<csv, cache, X_scaled, col_i, df_forecast, err,
                   df_final, Views, StlLocals, ran>>

\* the function returns: the value is cached and bound to df_final
Return ==
    /\ pc = "return"
    /\ cache' = ReturnValue(df)
    /\ df_final' = ReturnValue(df)
    /\ pc' = "main"
    /\ df' = NoTable
    /\ X_scaled' = NoTable
    /\ col_i' = 0
    /\ residuals' = NoSeries
    /\ df_forecast' = NoTable
    /\ stl_hits' = {}
    /\ stl_zero' = TRUE
    /\ UNCHANGED <<csv, err, Views, ran>>

\* the rest of the script: the consensus markers and the anomaly table
Render ==
    /\ pc = "main"
    /\ df_consensus' = InIndexOrder(ConsensusRows(df_final))
    /\ \E s \in SortValuesDesc(df_final, FlaggedRows(df_final)) :
        df_anomalies' = SortIndex(s)
    /\ pc' = "idle"
    /\ UNCHANGED <<csv, cache, df, X_scaled, col_i, df_forecast,
                   err, df_final, StlLocals, ran>>

\* the CSV file is replaced between two runs of the script
CsvChange ==
    /\ pc \in {"idle", "failed"}
    /\ csv' \in CacheCsv \ {csv}
    /\ UNCHANGED <<cache, pc, df, X_scaled, col_i, df_forecast,
                   err, df_final, Views, StlLocals, ran>>

Pipeline ==
    \/ CacheHit \/ CacheMiss \/ Load \/ FeaturesKeyError \/ Standardize
    \/ IsoForest \/ IsoForestRaises \/ StlInit \/ StlField \/ StlRaises
    \/ StlDone \/ Prophet \/ ProphetRaises \/ Count \/ Return \/ Render

Next == Pipeline

Spec == Init /\ [][Next]_vars

\* the running app with the CSV changing under it
InitCache == Init /\ csv \in CacheCsv

NextCache == Pipeline \/ CsvChange

SpecCache == InitCache /\ [][NextCache]_vars

----------------------------------------------------------------------------
(* The three detectors of one run, their steps taken in any interleaving:  *)
(* each detector keeps its own order of steps, the count waits for all.    *)

InitAnyOrder ==
    /\ csv \in AnyOrderCsv
    /\ cache = NoTable
    /\ pc = "detect"
    /\ df = RenameColumns(csv)
    /\ X_scaled = NoTable
    /\ col_i = 0
    /\ residuals = NoSeries
    /\ df_forecast = NoTable
    /\ err = NoErr
    /\ df_final = NoTable
    /\ df_consensus = <<>>
    /\ df_anomalies = <<>>
    /\ stl_hits = {}
    /\ stl_zero = TRUE
    /\ ran = [iso |-> "scale", stl |-> "init", prophet |-> "fit"]

Shared == <<csv, cache, err, df_final, Views>>

AnyStandardize ==
    /\ pc = "detect" /\ ran.iso = "scale"
    /\ X_scaled' = FitTransform(df)
    /\ ran' = [ran EXCEPT !.iso = "fit"]
    /\ UNCHANGED <<Shared, pc, df, col_i, df_forecast, StlLocals>>

AnyIsoForest ==
    /\ pc = "detect" /\ ran.iso = "fit"
    /\ \E raw \in [Periods -> IsoLabels] : df' = IsoForestStep(df, raw)
    /\ ran' = [ran EXCEPT !.iso = "done"]
    /\ UNCHANGED <<Shared, pc, X_scaled, col_i, df_forecast,
                   StlLocals>>

AnyStlInit ==
    /\ pc = "detect" /\ ran.stl = "init"
    /\ df' = StlInitStep(df)
    /\ col_i' = 0
    /\ ran' = [ran EXCEPT !.stl = "loop"]
    /\ UNCHANGED <<Shared, pc, X_scaled, df_forecast, StlLocals>>

AnyStlField ==
    /\ pc = "detect" /\ ran.stl = "loop"
    /\ col_i < Len(features)
    /\ \E res \in [Periods -> ResVals] :
        /\ df' = StlFieldStep(df, res)
        /\ stl_hits' = stl_hits \cup {p \in Periods : ExceedsThreshold(res, p)}
        /\ stl_zero' = (stl_zero /\ \A p \in Periods : res[p] = 0)
    /\ col_i' = col_i + 1
    /\ UNCHANGED <<Shared, pc, X_scaled, residuals, df_forecast, ran>>

AnyStlDone ==
    /\ pc = "detect" /\ ran.stl = "loop"
    /\ col_i = Len(features)
    /\ ran' = [ran EXCEPT !.stl = "done"]
    /\ UNCHANGED <<Shared, pc, df, X_scaled, col_i, df_forecast, StlLocals>>

AnyProphet ==
    /\ pc = "detect" /\ ran.prophet = "fit"
    /\ \E fc \in Forecasts :
        /\ df_forecast' = fc
        /\ df' = ProphetStep(df, fc)
    /\ ran' = [ran EXCEPT !.prophet = "done"]
    /\ UNCHANGED <<Shared, pc, X_scaled, col_i, StlLocals>>

AnyCount ==
    /\ pc = "detect"
    /\ ran = [iso |-> "done", stl |-> "done", prophet |-> "done"]
    /\ df' = CountStep(df)
    /\ pc' = "return"
    /\ UNCHANGED <<Shared, X_scaled, col_i, df_forecast, StlLocals,
                   ran>>

NextAnyOrder ==
    \/ AnyStandardize \/ AnyIsoForest \/ AnyStlInit \/ AnyStlField
    \/ AnyStlDone \/ AnyProphet \/ AnyCount

SpecAnyOrder == InitAnyOrder /\ [][NextAnyOrder]_vars

----------------------------------------------------------------------------
(* Properties *)

CsvComplete == DOMAIN csv = RawCols

Constant(s) == \A p, q \in DOMAIN s : s[p] = s[q]

ZeroVarianceField == \E c \in DOMAIN csv : Constant(csv[c])

WrittenCols == FlagCols \cup {"anomaly_isoforest_raw", "anomaly_count"}

\* |r| > 2.5 * sample standard deviation of res, both sides squared
Over25Sd(res, p) ==
    LET n  == NumPeriods
        s1 == SumOf(res)
        s2 == SumSq(res)
    IN  4 * res[p] * res[p] * n * (n - 1) > 25 * (n * s2 - s1 * s1)

\* C1: in the table load_and_model_data returns, every flag is 0 or 1 and
\* anomaly_count is in 0..3 and is the sum of the three flags, period by period.
C1_CountIsSumOfFlags ==
    df_final # NoTable =>
        \A p \in Periods :
            /\ \A c \in FlagCols : df_final[c][p] \in {0, 1}
            /\ df_final["anomaly_count"][p] \in 0..3
            /\ df_final["anomaly_count"][p] =
                   df_final["anomaly_isoforest"][p] + df_final["anomaly_stl"][p]
                       + df_final["anomaly_prophet"][p]

C1_Witness ==
    /\ df_final # NoTable
    /\ \E p, q \in Periods :
        /\ df_final["anomaly_count"][p] = 3
        /\ df_final["anomaly_count"][q] = 1
        /\ df_final["anomaly_prophet"][q] = 1

\* C2: once the script has derived its views, the consensus rows are exactly
\* the periods with anomaly_count > 1, all of them are among the flagged rows
\* (anomaly_count > 0), and they are no more numerous than the flagged rows.
C2_ConsensusWithinFlagged ==
    (pc = "idle" /\ df_final # NoTable) =>
        /\ Range(df_consensus) = {p \in Periods : df_final["anomaly_count"][p] > 1}
        /\ Len(df_consensus) = Cardinality(Range(df_consensus))
        /\ Range(df_anomalies) = {p \in Periods : df_final["anomaly_count"][p] > 0}
        /\ Range(df_consensus) \subseteq Range(df_anomalies)
        /\ Len(df_consensus) <= Len(df_anomalies)

C2_Witness ==
    /\ pc = "idle"
    /\ df_final # NoTable
    /\ Len(df_consensus) = 1
    /\ Len(df_anomalies) = 2

\* C3: the table of flagged periods is ordered by anomaly_count descending,
\* then by date ascending.
C3_SortedByCountThenDate ==
    pc = "idle" =>
        \A i, j \in DOMAIN df_anomalies :
            i < j =>
                LET ci == df_final["anomaly_count"][df_anomalies[i]]
                    cj == df_final["anomaly_count"][df_anomalies[j]]
                IN  ci > cj \/ (ci = cj /\ df_anomalies[i] < df_anomalies[j])

\* C4: the table an invocation of load_and_model_data returns is computed
\* from the CSV as it is at that invocation (no stale table is served).
C4_NeverStale ==
    pc = "main" =>
        \A c \in RawCols : c \in DOMAIN csv /\ df_final[RenameOne(c)] = csv[c]

\* C5 as stated: a CSV that lacks a required column makes the loader step
\* fail with LoadError.
C5_MissingColumnIsLoadError ==
    (~CsvComplete /\ pc = "failed") => err = [kind |-> "LoadError", step |-> "load"]

\* C5 amended: with a required column absent the loader step ends without
\* error, the run fails with KeyError at the feature selection that opens the
\* Isolation Forest step, before anything is standardized or fitted and before
\* any flag column is written, and no table is returned or cached.
C5_MissingColumnIsKeyError ==
    ~CsvComplete =>
        /\ pc \in {"idle", "load", "scale", "failed"}
        /\ pc = "scale" => err = NoErr
        /\ pc = "failed" => err = [kind |-> "KeyError", step |-> "isoforest"]
        /\ X_scaled = NoTable
        /\ DOMAIN df \cap WrittenCols = {}
        /\ df_final = NoTable
        /\ cache = NoTable

C5_Witness ==
    /\ ~CsvComplete
    /\ pc = "failed"
    /\ err.kind = "KeyError"
    /\ DOMAIN df = FeatureSet \ {"gdp"}

\* C6 as stated: the failure of one detector does not abort the computation;
\* the run goes on to anomaly_count with the other detectors' flags.
C6_PartialResultOnFailure ==
    err.kind = "DetectorError" => pc # "failed"

\* C6 amended: when a detector fails the whole computation is aborted: the
\* script stops there, no anomaly_count is computed, and no table is returned
\* or cached.
C6_FailureAborts ==
    err.kind = "DetectorError" =>
        /\ pc = "failed"
        /\ "anomaly_count" \notin DOMAIN df
        /\ df_final = NoTable
        /\ cache = NoTable

C6_Witness ==
    /\ pc = "failed"
    /\ err = [kind |-> "DetectorError", step |-> "prophet"]
    /\ {"anomaly_isoforest", "anomaly_stl"} \subseteq DOMAIN df
    /\ \E p \in Periods : df["anomaly_isoforest"][p] = 1 /\ df["anomaly_stl"][p] = 1

\* C7: throughout and after the loop over the monitored fields, anomaly_stl
\* of a period is 1 exactly when some field processed so far had an absolute
\* residual above 2.5 times its own residual standard deviation there; a flag
\* set by an earlier field stays set; all residuals zero flags nothing.
C7_StlFlagIsOrOverFields ==
    pc = "stl_loop" =>
        \A p \in Periods :
            /\ df["anomaly_stl"][p] \in {0, 1}
            /\ df["anomaly_stl"][p] = 1 <=> p \in stl_hits
            /\ stl_zero => df["anomaly_stl"][p] = 0
            /\ (col_i > 0 /\ Over25Sd(residuals, p)) => df["anomaly_stl"][p] = 1

C7_Witness ==
    /\ pc = "stl_loop"
    /\ col_i = Len(features)
    /\ \E p, q \in Periods :
        /\ df["anomaly_stl"][p] = 1
        /\ ~Over25Sd(residuals, p)
        /\ df["anomaly_stl"][q] = 0

\* C8: anomaly_prophet of a period is 1 exactly when gdp is strictly below
\* yhat_lower or strictly above yhat_upper of that period; gdp equal to a
\* bound is not flagged.
C8_ProphetFlagIsStrictlyOutside ==
    pc = "count" =>
        \A p \in Periods :
            LET y  == df["gdp"][p]
                lo == df_forecast["yhat_lower"][p]
                hi == df_forecast["yhat_upper"][p]
            IN  /\ df["anomaly_prophet"][p] \in {0, 1}
                /\ df["anomaly_prophet"][p] = 0 <=> (lo <= y /\ y <= hi)
                /\ (y = lo \/ y = hi) => df["anomaly_prophet"][p] = 0

C8_Witness ==
    /\ pc = "count"
    /\ Constant(df["gdp"])
    /\ \A p \in Periods :
        /\ df_forecast["yhat_lower"][p] = df["gdp"][p]
        /\ df_forecast["yhat_upper"][p] = df["gdp"][p]
        /\ df["anomaly_prophet"][p] = 0

\* C9: whatever the interleaving of the three detectors, each flag column is
\* the same function of the panel and of what its own model returned, the
\* panel columns are left as loaded, and anomaly_count is their sum.
C9_OrderIndependent ==
    /\ \A c \in FeatureSet : df[c] = RenameColumns(csv)[c]
    /\ ran.iso = "done" =>
        \A p \in Periods :
            df["anomaly_isoforest"][p] =
                (IF df["anomaly_isoforest_raw"][p] = -1 THEN 1 ELSE 0)
    /\ ran.stl \in {"loop", "done"} =>
        \A p \in Periods :
            df["anomaly_stl"][p] = (IF p \in stl_hits THEN 1 ELSE 0)
    /\ ran.prophet = "done" =>
        \A p \in Periods :
            df["anomaly_prophet"][p] =
                (IF df["gdp"][p] < df_forecast["yhat_lower"][p]
                      \/ df["gdp"][p] > df_forecast["yhat_upper"][p]
                 THEN 1 ELSE 0)
    /\ pc = "return" =>
        \A p \in Periods :
            df["anomaly_count"][p] =
                df["anomaly_isoforest"][p] + df["anomaly_stl"][p]
                    + df["anomaly_prophet"][p]

C9_Witness ==
    /\ pc = "detect"
    /\ ran = [iso |-> "fit", stl |-> "done", prophet |-> "done"]
    /\ \E p, q \in Periods :
        /\ df["anomaly_stl"][p] = 1 /\ df["anomaly_prophet"][p] = 0
        /\ df["anomaly_stl"][q] = 0 /\ df["anomaly_prophet"][q] = 1

\* C10 as stated: a field of zero variance makes standardization fail with
\* DegenerateInputError and the pipeline produces no flags.
C10_ZeroVarianceIsFatal ==
    (CsvComplete /\ ZeroVarianceField) =>
        /\ pc \in {"idle", "load", "scale", "failed"}
        /\ pc = "failed" => err.kind = "DegenerateInputError"
        /\ df_final = NoTable

\* C10 amended: a field of zero variance does not make standardization fail:
\* its scale is taken as 1, its standardized values are all 0 and none is
\* NaN, the Isolation Forest is not refused its input, and the run goes on.
C10_ZeroVarianceIsScaledToZero ==
    \A c \in DOMAIN csv :
        Constant(csv[c]) =>
            /\ err.kind # "ValueError"
            /\ X_scaled # NoTable =>
                \A p \in Periods :
                    /\ X_scaled[RenameOne(c)][p].num = 0
                    /\ X_scaled[RenameOne(c)][p].den2 > 0

C10_Witness ==
    /\ CsvComplete
    /\ Constant(csv["GDP_YoY_Growth"])
    /\ Constant(csv["Total_Corporate_Credit"])
    /\ pc = "main"
    /\ df_final # NoTable
    /\ \E p \in Periods : df_final["anomaly_isoforest"][p] = 1
====
